---- MODULE Spec2Model ----
(***************************************************************************)
(* The interactive candlestick chart components of the blog:              *)
(*   RealStockChart        (components/RealStockChart.tsx)                  *)
(*   YahooFinanceChart     (components/YahooFinanceChart.tsx)               *)
(*   InteractiveStockChart (components/InteractiveStockChart.tsx)           *)
(* Each is a React function component: hook state, an effect that loads   *)
(* the series, and pointer / wheel / button handlers on the viewport.     *)
(*                                                                         *)
(* Numbers.  Raw quote values are integers in thousandths of a dollar     *)
(* (mills); a value stored in a series has been through toFixed(2) and is *)
(* held in cents.  A JavaScript value that may be null / undefined is the *)
(* empty tuple <<>> (Missing) or the one-element tuple <<v>>.             *)
(***************************************************************************)
EXTENDS Integers, Sequences, FiniteSets, TLC

(***************************************************************************)
(* Bounds of the model.                                                    *)
(***************************************************************************)
MaxRuns == 2
MaxDays == 11
CanvasWidth == 16
PointerStep == 4
LongDays == 29
ScenarioDays == 89
ScenarioWidth == 800
ScenarioStep == 80
MaxUnderrun == 2
LiveDays == 2

(***************************************************************************)
(* Program constants.                                                      *)
(***************************************************************************)
MinVisible == 10
DaySeconds == 86400
Padding == 60
CanvasHeight == 500

Components == {"Real", "Yahoo", "Interactive"}
Symbols == {"TMDX", "XYZ"}
DaysChoices == {MaxDays - 1, MaxDays}
PointerXs == {x \in 0..CanvasWidth : x % PointerStep = 0}
ScenarioXs == {0, ScenarioStep, 2 * ScenarioStep}
RandomDraws == {0, 999}

Missing == <<>>
Num(v) == <<v>>
NoError == "null"

Max(a, b) == IF a >= b THEN a ELSE b
Min(a, b) == IF a <= b THEN a ELSE b
Abs(a) == IF a < 0 THEN 0 - a ELSE a

(***************************************************************************)
(* Number(x.toFixed(2)): mills to cents, nearest, ties to the larger      *)
(* magnitude.                                                              *)
(***************************************************************************)
ToFixed2(m) == IF m >= 0 THEN (m + 5) \div 10 ELSE 0 - ((5 - m) \div 10)

\* x || 0 on a raw quote value: null, undefined and 0 give 0.
OrZero(x) == IF x = Missing THEN 0 ELSE x[1]

\* !x on a raw quote value.
Falsy(x) == x = Missing \/ x[1] = 0

\* new Date(timestamp * 1000).toISOString().split('T')[0], as a day number.
DateOf(timestamp) == timestamp \div DaySeconds

\* arr[i] of a JavaScript array (0-based i): undefined past the end.
At(arr, i) == IF i + 1 \in DOMAIN arr THEN arr[i + 1] ELSE Missing

\* Array.prototype.sort with the comparator a.date - b.date (stable): the
\* point at index i goes to the place after those of an earlier date and
\* those of the same date before it.
SortRank(s, i) ==
    Cardinality({j \in DOMAIN s : \/ s[j].date < s[i].date
                                  \/ s[j].date = s[i].date /\ j < i}) + 1

SortByDate(s) ==
    [k \in DOMAIN s |-> s[CHOOSE i \in DOMAIN s : SortRank(s, i) = k]]

\* arr.slice(-n)
SliceLast(s, n) ==
    IF n = 0 \/ n >= Len(s) THEN s ELSE SubSeq(s, Len(s) - n + 1, Len(s))

Thrown(msg) == [ok |-> FALSE, data |-> <<>>, err |-> msg]
Returned(d) == [ok |-> TRUE, data |-> d, err |-> NoError]

(***************************************************************************)
(* Not-a-number, as parseFloat / parseInt give for a missing field: an    *)
(* integer outside the range of every price and volume of the model.      *)
(***************************************************************************)
NaN == 0 - 2147483647

\* Number(parseFloat(s).toFixed(2)) on a field of an Alpha Vantage entry.
ParseFixed2(x) == IF x = Missing THEN NaN ELSE ToFixed2(x[1])

\* parseInt(s) on a field of an Alpha Vantage entry.
ParseInt(x) == IF x = Missing THEN NaN ELSE x[1]

(***************************************************************************)
(* A Yahoo chart response:                                                 *)
(*   status  "reject" (fetch rejects), "notok" (response.ok is false),     *)
(*           "badjson" (response.json() rejects), "ok"                     *)
(*   result  data.chart.result[0]: Missing, or <<[timestamp, quote]>>      *)
(*           timestamp  Missing or <<sequence of seconds>>                 *)
(*           quote      indicators.quote[0]: Missing, or <<record of the  *)
(*                      arrays open, high, low, close, volume>>, each      *)
(*                      Missing or <<sequence of raw values>>              *)
(***************************************************************************)

\* One element of timestamps.map(...) in fetchRealStockData.
RealPoint(timestamp, q, index) ==
    [date |-> DateOf(timestamp),
     open |-> ToFixed2(OrZero(At(q.open[1], index))),
     high |-> ToFixed2(OrZero(At(q.high[1], index))),
     low |-> ToFixed2(OrZero(At(q.low[1], index))),
     close |-> ToFixed2(OrZero(At(q.close[1], index))),
     volume |-> OrZero(At(q.volume[1], index))]

RealKeep(item) == item.open > 0 /\ item.close > 0

\* fetchRealStockData: the promise it returns, resolved or rejected.
fetchRealStockData(resp) ==
    IF resp.status = "reject" THEN Thrown("fetch")
    ELSE IF resp.status = "notok" THEN Thrown("API request failed")
    ELSE IF resp.status = "badjson" THEN Thrown("json")
    ELSE IF resp.result = Missing THEN Thrown("no chart result")
    ELSE LET result == resp.result[1]
             timestamps == result.timestamp
             quotes == result.quote
         IN  IF timestamps = Missing THEN Thrown("TypeError")
             ELSE IF timestamps[1] = <<>> THEN Returned(<<>>)
             ELSE IF quotes = Missing THEN Thrown("TypeError")
             ELSE IF \E f \in {"open", "high", "low", "close", "volume"} :
                         quotes[1][f] = Missing
                  THEN Thrown("TypeError")
             ELSE Returned(SelectSeq(
                      [i \in 1..Len(timestamps[1]) |->
                          RealPoint(timestamps[1][i], quotes[1], i - 1)],
                      RealKeep))

\* quotes.open?.[i]
OptAt(arr, i) == IF arr = Missing THEN Missing ELSE At(arr[1], i)

\* The skip test of the loop of fetchYahooFinanceData.
YahooSkip(open, high, low, close) ==
    \/ Falsy(open) \/ Falsy(high) \/ Falsy(low) \/ Falsy(close)
    \/ open[1] <= 0 \/ close[1] <= 0

YahooPoint(timestamp, q, i) ==
    [date |-> DateOf(timestamp),
     open |-> ToFixed2(OptAt(q.open, i)[1]),
     high |-> ToFixed2(OptAt(q.high, i)[1]),
     low |-> ToFixed2(OptAt(q.low, i)[1]),
     close |-> ToFixed2(OptAt(q.close, i)[1]),
     volume |-> OrZero(OptAt(q.volume, i))]

\* for (let i = ...; i < timestamps.length; i++) { ... }: the points pushed
\* from index i on, those of the indices the skip test lets through.
YahooLoop(timestamps, q, i) ==
    LET kept == SelectSeq([j \in 1..(Len(timestamps) - i) |-> i + j - 1],
                          LAMBDA j : ~YahooSkip(OptAt(q.open, j), OptAt(q.high, j),
                                                OptAt(q.low, j), OptAt(q.close, j)))
    IN  [k \in DOMAIN kept |-> YahooPoint(timestamps[kept[k] + 1], q, kept[k])]

\* fetchYahooFinanceData: the promise it returns, resolved or rejected.
fetchYahooFinanceData(resp) ==
    IF resp.status = "reject" THEN Thrown("fetch")
    ELSE IF resp.status = "notok" THEN Thrown("HTTP status")
    ELSE IF resp.status = "badjson" THEN Thrown("json")
    ELSE IF resp.result = Missing THEN Thrown("invalid format")
    ELSE LET result == resp.result[1]
             timestamps == IF result.timestamp = Missing THEN <<>>
                           ELSE result.timestamp[1]
             quotes == result.quote
         IN  IF quotes = Missing \/ Len(timestamps) = 0
             THEN Thrown("quote data empty")
             ELSE LET stockData == YahooLoop(timestamps, quotes[1], 0)
                  IN  IF Len(stockData) = 0 THEN Thrown("no valid data")
                      ELSE Returned(SortByDate(stockData))

(***************************************************************************)
(* An Alpha Vantage response:                                              *)
(*   status      "reject", "badjson", "ok"                                 *)
(*   errorMessage  data['Error Message'] is present                        *)
(*   timeSeries  data['Time Series (Daily)']: Missing, or <<the entries in *)
(*               Object.entries order>>, each [date, open, high, low,      *)
(*               close, volume] with the fields Missing or <<number>>      *)
(***************************************************************************)
AlphaPoint(e) ==
    [date |-> e.date,
     open |-> ParseFixed2(e.open),
     high |-> ParseFixed2(e.high),
     low |-> ParseFixed2(e.low),
     close |-> ParseFixed2(e.close),
     volume |-> ParseInt(e.volume)]

\* fetchAlphaVantageData: the promise it returns; days is the prop it closes over.
fetchAlphaVantageData(resp, days) ==
    IF resp.status = "reject" THEN Thrown("fetch")
    ELSE IF resp.status = "badjson" THEN Thrown("json")
    ELSE IF resp.errorMessage THEN Thrown("Error Message")
    ELSE IF resp.timeSeries = Missing THEN Thrown("no time series")
    ELSE LET entries == resp.timeSeries[1]
             stockData == [i \in 1..Len(entries) |-> AlphaPoint(entries[i])]
         IN  Returned(SliceLast(SortByDate(stockData), days))

(***************************************************************************)
(* The synthetic generator.  Prices are mills, relative changes are in    *)
(* units of 1/10000, a Math.random() draw is r / 1000 for r in 0..999.    *)
(* d is the tuple of the seven draws of one day, in the order of the      *)
(* calls in the loop body.                                                 *)
(***************************************************************************)

\* 1000 * Math.sin(x / 1000) for x >= 0, by reduction to [0, pi/2] and the
\* series x - x^3/6 + x^5/120.
SinQuarter(x) ==
    LET x2 == (x * x) \div 1000
        x3 == (x2 * x) \div 1000
        x5 == (x3 * x2) \div 1000
    IN  Min(1000, x - (x3 \div 6) + (x5 \div 120))

SinMilli(x) ==
    LET y == x % 6283
    IN  IF y <= 1571 THEN SinQuarter(y)
        ELSE IF y <= 3142 THEN SinQuarter(3142 - y)
        ELSE IF y <= 4712 THEN 0 - SinQuarter(y - 3142)
        ELSE 0 - SinQuarter(6283 - y)

\* stockConfigs[symbol] || stockConfigs['default'] of RealStockChart.
stockConfigs(symbol) ==
    IF symbol = "TMDX"
    THEN [base |-> 117000, lo |-> 80000, hi |-> 180000, volatility |-> 450, trend |-> 10]
    ELSE IF symbol = "AAPL"
    THEN [base |-> 180000, lo |-> 150000, hi |-> 200000, volatility |-> 200, trend |-> 10]
    ELSE IF symbol = "TSLA"
    THEN [base |-> 250000, lo |-> 180000, hi |-> 350000, volatility |-> 450, trend |-> 20]
    ELSE [base |-> 100000, lo |-> 80000, hi |-> 130000, volatility |-> 250, trend |-> 0]

\* stockPriceRanges[symbol] || stockPriceRanges['default'] of InteractiveStockChart.
stockPriceRanges(symbol) ==
    IF symbol = "TMDX"
    THEN [base |-> 117000, lo |-> 80000, hi |-> 180000, volatility |-> 450]
    ELSE IF symbol = "AAPL"
    THEN [base |-> 180000, lo |-> 150000, hi |-> 200000, volatility |-> 200]
    ELSE IF symbol = "TSLA"
    THEN [base |-> 250000, lo |-> 180000, hi |-> 350000, volatility |-> 450]
    ELSE [base |-> 100000, lo |-> 80000, hi |-> 130000, volatility |-> 250]

\* price * (1 - change): the relative change applied with the wrong sign.
ScaleDown(price, change) == price - ((price * change) \div 10000)

\* price * (1 + change)
Scale(price, change) == price + ((price * change) \div 10000)

\* One pass of the loop body of generateMockData of RealStockChart: the
\* point pushed and the price carried to the next day.
RealMockDay(symbol, config, currentPrice, i, today, d) ==
    LET cyclicalTrend == (SinMilli((i * 1000) \div 15) * 50) \div 1000
        randomWalk == ((d[1] - 500) * config.volatility * 2) \div 1000
        momentum == ((d[2] - 500) * 150) \div 1000
        reversion == ((config.base - currentPrice) * 50) \div config.base
        totalChange == config.trend + cyclicalTrend + randomWalk + momentum + reversion
        clamped == Max(config.lo, Min(config.hi, Scale(currentPrice, totalChange)))
        open == clamped
        dayRange == (config.volatility * (300 + ((d[3] * 700) \div 1000))) \div 1000
        dailyDirection == d[4] - 500
        close == Scale(open, (dailyDirection * dayRange) \div 1000)
        maxPrice == Max(open, close)
        minPrice == Min(open, close)
        high == Scale(maxPrice, (d[5] * 200) \div 1000)
        low == Scale(minPrice, 0 - ((d[6] * 200) \div 1000))
        priceChange == (Abs(close - open) * 10000) \div open
        baseVolume == IF symbol = "TMDX" THEN 400000 ELSE 1000000
        volume == ((((baseVolume \div 10000) * (10000 + priceChange * 8)) \div 1000)
                      * (500 + d[7]))
    IN  [point |-> [date |-> today - i,
                    open |-> ToFixed2(open),
                    high |-> ToFixed2(high),
                    low |-> ToFixed2(low),
                    close |-> ToFixed2(close),
                    volume |-> volume],
         next |-> close]

\* The same of InteractiveStockChart.
InteractiveMockDay(symbol, config, basePrice, i, today, d) ==
    LET trendFactor == (SinMilli(i * 100) * 10) \div 1000
        randomWalk == ((d[1] - 500) * 2 * config.volatility) \div 1000
        momentum == ((d[2] - 500) * 100) \div 1000
        totalChange == trendFactor + randomWalk + momentum
        clamped == Max(config.lo, Min(config.hi, Scale(basePrice, totalChange)))
        open == clamped
        dayVolatility == (config.volatility * (500 + ((d[3] * 500) \div 1000))) \div 1000
        close == Scale(open, ((d[4] - 500) * 2 * dayVolatility) \div 1000)
        maxPrice == Max(open, close)
        minPrice == Min(open, close)
        high == Scale(maxPrice, (d[5] * 150) \div 1000)
        low == Scale(minPrice, 0 - ((d[6] * 150) \div 1000))
        priceChangePercent == (Abs(close - open) * 10000) \div open
        baseVolume == 500000 + d[7] * 500
        volume == ((baseVolume \div 100) * (10000 + priceChangePercent * 5)) \div 100
    IN  [point |-> [date |-> today - i,
                    open |-> ToFixed2(open),
                    high |-> ToFixed2(high),
                    low |-> ToFixed2(low),
                    close |-> ToFixed2(close),
                    volume |-> volume],
         next |-> close]

\* The same of StockChart, whose loop draws five numbers a day and has one
\* profile for every symbol.
StockMockDay(basePrice, i, today, d) ==
    LET volatility == 200
        change == ((d[1] - 500) * 2 * volatility) \div 1000
        open == Max(Scale(basePrice, change), 10000)
        close == Scale(open, ((d[2] - 500) * 200) \div 1000)
        high == Scale(Max(open, close), (d[3] * 100) \div 1000)
        low == Scale(Min(open, close), 0 - ((d[4] * 100) \div 1000))
        volume == d[5] * 1000 + 100000
    IN  [point |-> [date |-> today - i,
                    open |-> ToFixed2(open),
                    high |-> ToFixed2(high),
                    low |-> ToFixed2(low),
                    close |-> ToFixed2(close),
                    volume |-> volume],
         next |-> close]

MockDay(comp, symbol, price, i, today, d) ==
    IF comp = "Real"
    THEN RealMockDay(symbol, stockConfigs(symbol), price, i, today, d)
    ELSE IF comp = "Stock" THEN StockMockDay(price, i, today, d)
    ELSE InteractiveMockDay(symbol, stockPriceRanges(symbol), price, i, today, d)

\* The points of two consecutive stretches of the loop and the price the
\* second one ends on.
JoinSpans(first, rest) ==
    [points |-> first.points \o rest.points, next |-> rest.next]

\* n consecutive iterations of the loop, from day i down: the points they
\* push and the price the last one carries on.  The iterations are taken
\* half by half, the second half starting from the price the first ends on
\* (first is bound to the value of the first half, computed once).
RECURSIVE MockSpan(_, _, _, _, _, _, _)
MockSpan(comp, symbol, price, i, n, today, d) ==
    IF n <= 0 THEN [points |-> <<>>, next |-> price]
    ELSE IF n = 1
    THEN LET day == MockDay(comp, symbol, price, i, today, d)
         IN  [points |-> <<day.point>>, next |-> day.next]
    ELSE LET h == n \div 2
         IN  CHOOSE span \in
                 {JoinSpans(first, MockSpan(comp, symbol, first.next, i - h, n - h,
                                            today, d)) :
                      first \in {MockSpan(comp, symbol, price, i, h, today, d)}} :
                 TRUE

\* for (let i = days; i >= 0; i--) { ... data.push(...) }
MockLoop(comp, symbol, price, i, today, d) ==
    MockSpan(comp, symbol, price, i, i + 1, today, d).points

\* A generator whose loop starts one day late (i = days - 1): days points.
generateMockDataShort(comp, symbol, days, r) ==
    LET d == [k \in 1..7 |-> r]
        start == IF comp = "Real"
                 THEN stockConfigs(symbol).base + (r - 500) * 15
                 ELSE stockPriceRanges(symbol).base + (r - 500) * 20
    IN  MockLoop(comp, symbol, start, days - 1, 200, d)

\* generateMockData(symbol, days) of the component comp: r is the draw of
\* the first price, d the draws of each day.
generateMockDataWith(comp, symbol, days, r, d) ==
    LET start == IF comp = "Real"
                 THEN stockConfigs(symbol).base + (r - 500) * 15
                 ELSE IF comp = "Stock" THEN 50000 + r * 100
                 ELSE stockPriceRanges(symbol).base + (r - 500) * 20
    IN  MockLoop(comp, symbol, start, days, 200, d)

\* The same, every draw being r.
generateMockData(comp, symbol, days, r) ==
    generateMockDataWith(comp, symbol, days, r, [k \in 1..7 |-> r])

\* The draws of one call, all equal.
UniformDraws == {<<r, [k \in 1..7 |-> r]>> : r \in RandomDraws}

\* The draws of one call, each day's seven at either end of [0, 1) in every
\* combination, or all in the middle.
CornerDraws ==
    {<<r, d>> : r \in RandomDraws, d \in [1..7 -> RandomDraws]}
        \cup {<<500, [k \in 1..7 |-> 500]>>}

(***************************************************************************)
(* The viewport handlers, as functions of the chart state the handler     *)
(* closes over and of stockData.length.  Math.floor of the products below *)
(* is the integer quotient: currentVisible * 1.1, * 0.9, * 0.8 and * 1.2  *)
(* floor to (currentVisible * 11) \div 10 and so on for every integer     *)
(* currentVisible, and center - newVisible / 2 is a multiple of 1/2.      *)
(***************************************************************************)
Recenter(cs, length, newVisible) ==
    LET newStart == Max(0, (cs.viewportStart + cs.viewportEnd - newVisible) \div 2)
        newEnd == Min(length, newStart + newVisible)
    IN  [cs EXCEPT !.viewportStart = newStart, !.viewportEnd = newEnd]

\* newVisible of handleWheel; zoomOut is e.deltaY > 0.
WheelVisible(comp, cs, length, zoomOut) ==
    LET currentVisible == cs.viewportEnd - cs.viewportStart
        scaled == IF zoomOut THEN (currentVisible * 11) \div 10
                  ELSE (currentVisible * 9) \div 10
    IN  IF comp = "Yahoo"
        THEN Min(length, Max(MinVisible, scaled))
        ELSE Min(Max(MinVisible, length), Max(MinVisible, scaled))

\* A handleWheel with the two zoom factors exchanged.
handleWheelInverted(comp, cs, length, zoomOut) ==
    LET currentVisible == cs.viewportEnd - cs.viewportStart
        newVisible == WheelVisible(comp, cs, length, ~zoomOut)
    IN  IF newVisible # currentVisible THEN Recenter(cs, length, newVisible) ELSE cs

handleWheel(comp, cs, length, zoomOut) ==
    LET currentVisible == cs.viewportEnd - cs.viewportStart
        newVisible == WheelVisible(comp, cs, length, zoomOut)
    IN  IF newVisible # currentVisible THEN Recenter(cs, length, newVisible) ELSE cs

handleMouseDown(cs, clientX) ==
    [cs EXCEPT !.isDragging = TRUE, !.dragStartX = Num(clientX)]

\* The offset rounded toward zero (Math.trunc) instead of down.
DragOffsetTruncated(cs, clientX, width) ==
    LET deltaX == clientX - cs.dragStartX[1]
        viewportSize == cs.viewportEnd - cs.viewportStart
        product == deltaX * viewportSize
    IN  IF product >= 0 THEN product \div width
        ELSE 0 - ((0 - product) \div width)

\* offset of handleMouseMove: Math.floor(deltaX * sensitivity).
DragOffset(cs, clientX, width) ==
    LET deltaX == clientX - cs.dragStartX[1]
        viewportSize == cs.viewportEnd - cs.viewportStart
    IN  (deltaX * viewportSize) \div width

\* A handleMouseMove that commits the clamped window whatever its size.
handleMouseMoveClamped(cs, length, clientX, width) ==
    LET offset == DragOffset(cs, clientX, width)
        newStart == Max(0, cs.viewportStart - offset)
        newEnd == Min(length, cs.viewportEnd - offset)
    IN  IF Abs(offset) > 0
        THEN [cs EXCEPT !.viewportStart = newStart,
                        !.viewportEnd = newEnd,
                        !.dragStartX = Num(clientX)]
        ELSE cs

\* The body of handleMouseMove past its early returns.
handleMouseMove(cs, length, clientX, width) ==
    LET viewportSize == cs.viewportEnd - cs.viewportStart
        offset == DragOffset(cs, clientX, width)
        newStart == Max(0, cs.viewportStart - offset)
        newEnd == Min(length, cs.viewportEnd - offset)
    IN  IF Abs(offset) > 0 /\ newEnd - newStart = viewportSize
        THEN [cs EXCEPT !.viewportStart = newStart,
                        !.viewportEnd = newEnd,
                        !.dragStartX = Num(clientX)]
        ELSE cs

\* A handleMouseUp that leaves the anchor of the drag it ends.
handleMouseUpKeepsAnchor(cs) ==
    [cs EXCEPT !.isDragging = FALSE]

handleMouseUp(cs) ==
    [cs EXCEPT !.isDragging = FALSE, !.dragStartX = Missing]

\* A zoomIn with no least window size (no Math.max(10, ...)).
zoomInUnbounded(cs, length) ==
    LET currentVisible == cs.viewportEnd - cs.viewportStart
    IN  Recenter(cs, length, (currentVisible * 8) \div 10)

\* newVisible of zoomIn and of zoomOut.
ZoomInVisible(cs) ==
    LET currentVisible == cs.viewportEnd - cs.viewportStart
    IN  Max(MinVisible, (currentVisible * 8) \div 10)

\* A zoomOut of factor 1.05.
ZoomOutVisibleSlow(cs, length) ==
    LET currentVisible == cs.viewportEnd - cs.viewportStart
    IN  Min(length, (currentVisible * 105) \div 100)

ZoomOutVisible(cs, length) ==
    LET currentVisible == cs.viewportEnd - cs.viewportStart
    IN  Min(length, (currentVisible * 12) \div 10)

zoomIn(cs, length) == Recenter(cs, length, ZoomInVisible(cs))

zoomOut(cs, length) == Recenter(cs, length, ZoomOutVisible(cs, length))

\* A reset that also ends the drag in progress.
resetViewEndsDrag(cs, length) ==
    [cs EXCEPT !.viewportStart = 0, !.viewportEnd = length,
               !.isDragging = FALSE, !.dragStartX = Missing]

resetView(cs, length) ==
    [cs EXCEPT !.viewportStart = 0, !.viewportEnd = length]

(***************************************************************************)
(* drawChart.  A quotient a / b of the drawing code is kept as the pair   *)
(* of its terms: with b = 0 it is what JavaScript makes of a division by  *)
(* zero, NaN for 0 / 0 and an infinity otherwise, and a sum or a product  *)
(* of such a value with a number is again NaN or an infinity.             *)
(***************************************************************************)
Ratio(a, b) == [num |-> a, den |-> b]

\* Number.isFinite
IsFinite(q) == q.den # 0

\* k + q and k * q, k a number.
Plus(k, q) == IF q.den = 0 THEN q ELSE Ratio(k * q.den + q.num, q.den)
Times(k, q) ==
    IF q.den = 0 THEN (IF k = 0 THEN Ratio(0, 0) ELSE q)
    ELSE Ratio(k * q.num, q.den)

\* Array.prototype.slice(start, end)
Slice(s, start, end) ==
    LET from == IF start < 0 THEN Max(Len(s) + start, 0) ELSE Min(start, Len(s))
        to == IF end < 0 THEN Max(Len(s) + end, 0) ELSE Min(end, Len(s))
    IN  IF to <= from THEN <<>> ELSE SubSeq(s, from + 1, to)

\* Math.min(...prices) and Math.max(...prices) of the highs and lows.
MinPrice(visibleData) ==
    LET prices == {visibleData[i].high : i \in DOMAIN visibleData}
                      \cup {visibleData[i].low : i \in DOMAIN visibleData}
    IN  IF NaN \in prices THEN NaN
        ELSE CHOOSE p \in prices : \A q \in prices : p <= q

MaxPrice(visibleData) ==
    LET prices == {visibleData[i].high : i \in DOMAIN visibleData}
                      \cup {visibleData[i].low : i \in DOMAIN visibleData}
    IN  IF NaN \in prices THEN NaN
        ELSE CHOOSE p \in prices : \A q \in prices : p >= q

\* chartHeight / priceRange
PriceScale(visibleData, chartHeight) ==
    IF MinPrice(visibleData) = NaN THEN Ratio(0, 0)
    ELSE Ratio(chartHeight, MaxPrice(visibleData) - MinPrice(visibleData))

\* padding + (maxPrice - price) * priceScale
PriceY(visibleData, chartHeight, price) ==
    IF price = NaN \/ MaxPrice(visibleData) = NaN THEN Ratio(0, 0)
    ELSE Plus(Padding, Times(MaxPrice(visibleData) - price,
                             PriceScale(visibleData, chartHeight)))

\* padding + (chartWidth * index) / (visibleData.length - 1)
CandleX(visibleData, chartWidth, index) ==
    Plus(Padding, Ratio(chartWidth * index, Len(visibleData) - 1))

\* drawChart on the series data and the chart state cs, the canvas width by
\* height pixels: whether it gets to draw, and then the slice it draws, the
\* price scale and the coordinates of each candle.
drawChart(data, cs, width, height) ==
    LET chartWidth == width - Padding * 2
        chartHeight == height - Padding * 2
        visibleData == Slice(data, cs.viewportStart, cs.viewportEnd)
    IN  IF Len(data) = 0 \/ Len(visibleData) = 0
        THEN [draws |-> FALSE, visibleData |-> <<>>, priceScale |-> Ratio(0, 1),
              candles |-> <<>>]
        ELSE [draws |-> TRUE,
              visibleData |-> visibleData,
              priceScale |-> PriceScale(visibleData, chartHeight),
              candles |->
                [k \in DOMAIN visibleData |->
                    [x |-> CandleX(visibleData, chartWidth, k - 1),
                     openY |-> PriceY(visibleData, chartHeight, visibleData[k].open),
                     closeY |-> PriceY(visibleData, chartHeight, visibleData[k].close),
                     highY |-> PriceY(visibleData, chartHeight, visibleData[k].high),
                     lowY |-> PriceY(visibleData, chartHeight, visibleData[k].low)]]]

(***************************************************************************)
(* The responses the model lets the network give.                         *)
(***************************************************************************)
\* A chart result of n daily quotes; the quotes at the indices in bad are null.
YahooResult(n, bad) ==
    LET col(base) == Num([i \in 1..n |-> IF i \in bad THEN Missing
                                          ELSE Num(base + 1000 * i)])
    IN  [timestamp |-> Num([i \in 1..n |-> DaySeconds * (100 + i)]),
         quote |-> Num([open |-> col(100000), high |-> col(102000),
                        low |-> col(98000), close |-> col(101000),
                        volume |-> col(5000000)])]

YahooOk(result) == [status |-> "ok", result |-> Num(result)]

YahooResponses(n) ==
    {[status |-> st, result |-> Missing] : st \in {"reject", "notok", "badjson", "ok"}}
    \cup {YahooOk(YahooResult(n, {})),
          YahooOk(YahooResult(n, {1, 2})),
          YahooOk(YahooResult(n, 1..n)),
          YahooOk([YahooResult(n, {}) EXCEPT !.timestamp = Num(<<>>)]),
          YahooOk([YahooResult(n, {}) EXCEPT !.timestamp = Missing]),
          YahooOk([YahooResult(n, {}) EXCEPT !.quote = Missing])}

\* n entries of a daily time series, newest first.
AlphaSeries(n) ==
    [i \in 1..n |->
        [date |-> 150 - i,
         open |-> Num(50000 + 1000 * i), high |-> Num(52000 + 1000 * i),
         low |-> Num(48000 + 1000 * i), close |-> Num(49000 + 1000 * i),
         volume |-> Num(700000)]]

AlphaResponses(n) ==
    {[status |-> "reject", errorMessage |-> FALSE, timeSeries |-> Missing],
     [status |-> "badjson", errorMessage |-> FALSE, timeSeries |-> Missing],
     [status |-> "ok", errorMessage |-> TRUE, timeSeries |-> Missing],
     [status |-> "ok", errorMessage |-> FALSE, timeSeries |-> Missing],
     [status |-> "ok", errorMessage |-> FALSE, timeSeries |-> Num(<<>>)],
     [status |-> "ok", errorMessage |-> FALSE, timeSeries |-> Num(AlphaSeries(n + 2))]}

(***************************************************************************)
(* Payloads a live source can also send: well-formed JSON whose quotes    *)
(* are not a clean daily series.                                           *)
(***************************************************************************)
\* n >= 3 daily quotes, of which the first has no high (null), the second
\* has its high below its low, and the third opens at 0.004.
YahooSkewed(n) ==
    LET col(base) == [i \in 1..n |-> Num(base + 1000 * i)]
    IN  [timestamp |-> Num([i \in 1..n |-> DaySeconds * (100 + i)]),
         quote |-> Num([open |-> Num([col(100000) EXCEPT ![3] = Num(4)]),
                        high |-> Num([col(102000) EXCEPT ![1] = Missing,
                                                         ![2] = Num(97000)]),
                        low |-> Num(col(98000)),
                        close |-> Num(col(101000)),
                        volume |-> Num(col(5000000))])]

\* n >= 2 quotes, newest first, the first two an hour apart on the same day.
YahooSameDay(n) ==
    [YahooResult(n, {}) EXCEPT
        !.timestamp = Num([i \in 1..n |->
                              IF i = 1 THEN DaySeconds * (100 + n) + 3600
                              ELSE DaySeconds * (102 + n - i)])]

\* One quote with open = high = low = close.
YahooFlat ==
    LET col == Num(<<Num(100000)>>)
    IN  [timestamp |-> Num(<<DaySeconds * 100>>),
         quote |-> Num([open |-> col, high |-> col, low |-> col, close |-> col,
                        volume |-> Num(<<Num(5000000)>>)])]

OddYahooResponses(n) ==
    {YahooOk(YahooSkewed(n)), YahooOk(YahooSameDay(n)), YahooOk(YahooFlat)}

\* A daily time series whose newest entry has no '1. open' field and whose
\* second entry has its high below its low.
OddAlphaResponses(n) ==
    {[status |-> "ok", errorMessage |-> FALSE,
      timeSeries |-> Num([AlphaSeries(n) EXCEPT ![1].open = Missing,
                                                ![2].high = Num(1000)])]}

(***************************************************************************)
(* The state setters a continuation of a load calls before it returns,    *)
(* each Missing (not called) or <<the value set>>; next is where the run  *)
(* goes on.                                                               *)
(***************************************************************************)
NoCalls ==
    [data |-> Missing, viewportEnd |-> Missing, dataSource |-> Missing,
     error |-> Missing, lastUpdate |-> FALSE, loading |-> Missing,
     next |-> "done"]

\* A loadData with no inner catch: a failed request goes to the outer catch,
\* which only sets the error message.
loadDataNoFallback(res, mock) ==
    IF res.ok
    THEN [NoCalls EXCEPT !.data = Num(res.data),
                         !.dataSource = Num("api"),
                         !.viewportEnd = Num(Len(res.data)),
                         !.loading = Num(FALSE)]
    ELSE [NoCalls EXCEPT !.error = Num("LoadFailed"), !.loading = Num(FALSE)]

\* A loadData whose inner catch does not call setDataSource('mock').
loadDataSettledUntagged(res, mock) ==
    LET fetched == IF res.ok
                   THEN [NoCalls EXCEPT !.data = Num(res.data),
                                        !.dataSource = Num("api")]
                   ELSE [NoCalls EXCEPT !.data = Num(mock),
                                        !.error = Num("FallbackToMock")]
    IN  [fetched EXCEPT !.viewportEnd = Num(Len(fetched.data[1])),
                        !.loading = Num(FALSE)]

\* loadData of RealStockChart, useRealData true, from the await on: res is
\* the settled promise of fetchRealStockData, mock what generateMockData
\* returns if it is called.
loadDataSettled(res, mock) ==
    LET fetched == IF res.ok
                   THEN [NoCalls EXCEPT !.data = Num(res.data),
                                        !.dataSource = Num("api")]
                   ELSE [NoCalls EXCEPT !.data = Num(mock),
                                        !.dataSource = Num("mock"),
                                        !.error = Num("FallbackToMock")]
    IN  [fetched EXCEPT !.viewportEnd = Num(Len(fetched.data[1])),
                        !.loading = Num(FALSE)]

\* loadData of RealStockChart, useRealData false: it runs to its end in the effect.
loadDataMock(mock) ==
    [NoCalls EXCEPT !.error = Num(NoError),
                    !.data = Num(mock),
                    !.dataSource = Num("mock"),
                    !.viewportEnd = Num(Len(mock)),
                    !.loading = Num(FALSE)]

\* A catch block that swallows the error: only the finally block acts.
loadRealDataSwallowed(msg) ==
    [NoCalls EXCEPT !.loading = Num(FALSE)]

\* A loadRealData with no finally block: the catch sets the message only.
loadRealDataFailedStuck(msg) ==
    [NoCalls EXCEPT !.error = Num(msg)]

\* The catch and finally blocks of loadRealData, on the error message msg.
loadRealDataFailed(msg) ==
    [NoCalls EXCEPT !.error = Num(msg), !.loading = Num(FALSE)]

\* loadRealData of YahooFinanceChart from `if (data.length === 0)` on.
loadRealDataApply(data) ==
    IF Len(data) = 0 THEN loadRealDataFailed("NoData")
    ELSE [NoCalls EXCEPT !.data = Num(data),
                         !.viewportEnd = Num(Len(data)),
                         !.lastUpdate = TRUE,
                         !.loading = Num(FALSE)]

\* loadRealData when the promise of fetchYahooFinanceData settles.
loadRealDataPrimary(res) ==
    IF res.ok THEN loadRealDataApply(res.data)
    ELSE [NoCalls EXCEPT !.next = "alpha"]

\* A loadRealData that takes any settlement of the secondary request as a
\* failure.
loadRealDataSecondaryLost(res) ==
    [NoCalls EXCEPT !.error = Num("AllSourcesFailed"), !.loading = Num(FALSE)]

\* loadRealData when the promise of fetchAlphaVantageData settles.
loadRealDataSecondary(res) ==
    IF res.ok THEN loadRealDataApply(res.data)
    ELSE loadRealDataFailed("AllSourcesFailed")

\* A refreshData whose catch block also empties the series.
refreshDataSettledCleared(res) ==
    IF res.ok
    THEN [NoCalls EXCEPT !.data = Num(res.data),
                         !.lastUpdate = TRUE,
                         !.viewportEnd = Num(Len(res.data)),
                         !.loading = Num(FALSE)]
    ELSE [NoCalls EXCEPT !.data = Num(<<>>),
                         !.viewportEnd = Num(0),
                         !.error = Num("RefreshFailed"),
                         !.loading = Num(FALSE)]

\* refreshData when the promise of fetchYahooFinanceData settles.
refreshDataSettled(res) ==
    IF res.ok
    THEN [NoCalls EXCEPT !.data = Num(res.data),
                         !.lastUpdate = TRUE,
                         !.viewportEnd = Num(Len(res.data)),
                         !.loading = Num(FALSE)]
    ELSE [NoCalls EXCEPT !.error = Num("RefreshFailed"),
                         !.loading = Num(FALSE)]

\* The setTimeout callback of the effect of InteractiveStockChart.
timerCallback(mock) ==
    [NoCalls EXCEPT !.data = Num(mock),
                    !.viewportEnd = Num(Len(mock)),
                    !.error = Num(NoError),
                    !.loading = Num(FALSE)]

\* The setTimeout callback of the effect of StockChart, which has no viewport.
stockTimerCallback(mock) ==
    [NoCalls EXCEPT !.data = Num(mock),
                    !.error = Num(NoError),
                    !.loading = Num(FALSE)]

(***************************************************************************)
(* The state of one mounted component.                                     *)
(*   comp         which of the three components it is                      *)
(*   mounted      it has not been unmounted                                *)
(*   symbol, days, useRealData   its props                                 *)
(*   stockData, loading, error, dataSource, lastUpdate, chartState         *)
(*                its hook state (lastUpdate counts the timestamps taken)  *)
(*   runs         the calls of loadData / loadRealData / refreshData /     *)
(*                the timer callback so far, in the order they started     *)
(*   lastEvent    the last continuation that ran: its run, the source it  *)
(*                waited for, and what that source's promise settled to   *)
(***************************************************************************)
VARIABLES comp, mounted, symbol, days, useRealData,
          stockData, loading, error, dataSource, lastUpdate, chartState,
          runs, lastEvent

props == <<symbol, days, useRealData>>
hooks == <<stockData, loading, error, dataSource, lastUpdate, chartState>>
vars == <<comp, mounted, symbol, days, useRealData,
          stockData, loading, error, dataSource, lastUpdate, chartState,
          runs, lastEvent>>

\* A component of C after its first render, given a symbol of S and one of
\* the day counts in D.
ConstructedAs(C, S, D) ==
    /\ comp \in C
    /\ mounted = TRUE
    /\ symbol \in S
    /\ days \in D
    /\ useRealData \in (IF comp = "Real" THEN BOOLEAN ELSE {FALSE})
    /\ stockData = <<>>
    /\ loading = TRUE
    /\ error = NoError
    /\ dataSource = "mock"
    /\ lastUpdate = 0
    /\ chartState = [viewportStart |-> 0, viewportEnd |-> days,
                     isDragging |-> FALSE, dragStartX |-> Missing]
    /\ runs = <<>>
    /\ lastEvent = [run |-> 0, source |-> "none", ok |-> FALSE, data |-> <<>>]

\* The same with the default symbol.
Constructed(D) == ConstructedAs(Components, {"TMDX"}, D)

Init == Constructed(DaysChoices)

\* The components whose effect loads through a 500 ms timer.
TimerLoaded == {"Interactive", "Stock"}

NewRun(kind, pc) ==
    [kind |-> kind, symbol |-> symbol', days |-> days', pc |-> pc,
     yahoo |-> IF pc = "yahoo" THEN "pending" ELSE "skipped",
     alpha |-> "notasked", outcome |-> "pending"]

\* How a run whose continuation made the calls u stands: it has applied a
\* series, has ended on an error message, or waits for its next request.
Outcome(u) ==
    IF u.next # "done" THEN "pending"
    ELSE IF u.data # Missing THEN "applied"
    ELSE IF u.error # Missing THEN "error"
    ELSE "none"

\* The setters of u applied to the hook state.
Commit(u) ==
    /\ stockData' = IF u.data = Missing THEN stockData ELSE u.data[1]
    /\ chartState' = IF u.viewportEnd = Missing THEN chartState
                     ELSE [chartState EXCEPT !.viewportEnd = u.viewportEnd[1]]
    /\ dataSource' = IF u.dataSource = Missing THEN dataSource ELSE u.dataSource[1]
    /\ error' = IF u.error = Missing THEN error ELSE u.error[1]
    /\ lastUpdate' = IF u.lastUpdate THEN lastUpdate + 1 ELSE lastUpdate
    /\ loading' = IF u.loading = Missing THEN loading ELSE u.loading[1]

\* The effect that loads the series, run after a render with new
\* dependencies; symbol', days' and useRealData' are the props it sees.
StartLoadFrom(Draws) ==
    IF comp = "Real" /\ ~useRealData'
    THEN \E w \in Draws :
         \E u \in {loadDataMock(generateMockDataWith(comp, symbol', days', w[1], w[2]))} :
            /\ Commit(u)
            /\ runs' = Append(runs, [NewRun("load", "done") EXCEPT !.outcome = Outcome(u)])
            /\ lastEvent' = [run |-> Len(runs) + 1, source |-> "mock", ok |-> TRUE,
                             data |-> stockData']
    ELSE /\ loading' = TRUE
         /\ error' = IF comp \in TimerLoaded THEN error ELSE NoError
         /\ runs' = Append(runs, NewRun("load", IF comp \in TimerLoaded THEN "timer"
                                                 ELSE "yahoo"))
         /\ UNCHANGED <<stockData, dataSource, lastUpdate, chartState, lastEvent>>

StartLoad == StartLoadFrom(UniformDraws)

\* The first run of the effect, after the first render.
Mount ==
    /\ mounted /\ runs = <<>>
    /\ UNCHANGED <<comp, mounted, props>>
    /\ StartLoad

\* The parent renders the component with other props: the effect runs again.
ChangeProps(s, d) ==
    /\ mounted /\ runs # <<>> /\ Len(runs) < MaxRuns
    /\ <<s, d>> # <<symbol, days>>
    /\ symbol' = s /\ days' = d /\ useRealData' = useRealData
    /\ UNCHANGED <<comp, mounted>>
    /\ StartLoad

Unmount ==
    /\ mounted
    /\ mounted' = FALSE
    /\ UNCHANGED <<comp, props, hooks, runs, lastEvent>>

\* refreshData up to its await.
Refresh ==
    /\ comp = "Yahoo" /\ mounted /\ ~loading /\ Len(runs) < MaxRuns
    /\ UNCHANGED <<comp, mounted, props>>
    /\ loading' = TRUE
    /\ error' = NoError
    /\ runs' = Append(runs, NewRun("refresh", "yahoo"))
    /\ UNCHANGED <<stockData, dataSource, lastUpdate, chartState, lastEvent>>

\* What the continuation of run k does once its Yahoo request has settled
\* to res; r is the draw of a generateMockData it may call.
AfterYahoo(k, res, r) ==
    IF comp = "Real"
    THEN loadDataSettled(res, generateMockData(comp, runs[k].symbol, runs[k].days, r))
    ELSE IF runs[k].kind = "refresh" THEN refreshDataSettled(res)
    ELSE loadRealDataPrimary(res)

\* The Yahoo request of run k settles with resp.
YahooSettles(k, resp) ==
    /\ runs[k].pc = "yahoo"
    /\ \E res \in {IF comp = "Real" THEN fetchRealStockData(resp)
                   ELSE fetchYahooFinanceData(resp)} :
       \E r \in (IF comp = "Real" /\ ~res.ok THEN RandomDraws ELSE {0}) :
       \E u \in {AfterYahoo(k, res, r)} :
         /\ Commit(u)
         /\ runs' = [runs EXCEPT ![k].pc = u.next,
                                 ![k].yahoo = IF res.ok THEN "ok" ELSE "failed",
                                 ![k].alpha = IF u.next = "alpha" THEN "pending"
                                              ELSE "notasked",
                                 ![k].outcome = Outcome(u)]
         /\ lastEvent' = [run |-> k, source |-> "yahoo", ok |-> res.ok,
                          data |-> res.data]
    /\ UNCHANGED <<comp, mounted, props>>

\* The Alpha Vantage request of run k settles with resp.
AlphaSettles(k, resp) ==
    /\ runs[k].pc = "alpha"
    /\ \E res \in {fetchAlphaVantageData(resp, runs[k].days)} :
       \E u \in {loadRealDataSecondary(res)} :
         /\ Commit(u)
         /\ runs' = [runs EXCEPT ![k].pc = u.next,
                                 ![k].alpha = IF ~res.ok THEN "failed"
                                              ELSE IF Len(res.data) = 0 THEN "empty"
                                              ELSE "ok",
                                 ![k].outcome = Outcome(u)]
         /\ lastEvent' = [run |-> k, source |-> "alpha", ok |-> res.ok,
                          data |-> res.data]
    /\ UNCHANGED <<comp, mounted, props>>

\* The 500 ms timer of run k fires.
TimerFiresWith(k, w) ==
    /\ runs[k].pc = "timer"
    /\ \E mock \in {generateMockDataWith(comp, runs[k].symbol, runs[k].days, w[1], w[2])} :
       \E u \in {IF comp = "Stock" THEN stockTimerCallback(mock)
                  ELSE timerCallback(mock)} :
         /\ Commit(u)
         /\ runs' = [runs EXCEPT ![k].pc = u.next, ![k].outcome = Outcome(u)]
         /\ lastEvent' = [run |-> k, source |-> "mock", ok |-> TRUE,
                          data |-> stockData']
    /\ UNCHANGED <<comp, mounted, props>>

TimerFires(k, r) == TimerFiresWith(k, <<r, [j \in 1..7 |-> r]>>)

(***************************************************************************)
(* Pointer, wheel and button events.  The canvas and the buttons are      *)
(* rendered only when loading is false (and, in YahooFinanceChart, error  *)
(* is null); the zoom and reset buttons exist in RealStockChart and       *)
(* InteractiveStockChart only.                                             *)
(***************************************************************************)
CanvasShown == mounted /\ ~loading /\ (comp = "Yahoo" => error = NoError)
ButtonsShown == mounted /\ ~loading /\ comp # "Yahoo"

\* sensitivity of handleMouseMove on a canvas width pixels wide, computed from
\* the chart state of the render the handler belongs to.
Sensitivity(cs, width) == Ratio(cs.viewportEnd - cs.viewportStart, width)

\* The drawing of the state: the effect runs drawChart after every render
\* that changed the series or the chart state, on the canvas if it is there.
Drawing == drawChart(stockData, chartState, ScenarioWidth, CanvasHeight)

View(cs) ==
    /\ chartState' = cs
    /\ UNCHANGED <<comp, mounted, props, stockData, loading, error, dataSource,
                   lastUpdate, runs, lastEvent>>

Wheel(out) == CanvasShown /\ View(handleWheel(comp, chartState, Len(stockData), out))

MouseDown(x) == CanvasShown /\ View(handleMouseDown(chartState, x))

\* onMouseMove on a canvas width pixels wide.
MouseMoveOn(x, width) ==
    /\ CanvasShown
    /\ chartState.isDragging /\ chartState.dragStartX # Missing
    /\ View(handleMouseMove(chartState, Len(stockData), x, width))

MouseMove(x) == MouseMoveOn(x, CanvasWidth)

\* onMouseUp and onMouseLeave.
MouseUp == CanvasShown /\ View(handleMouseUp(chartState))

ZoomIn == ButtonsShown /\ View(zoomIn(chartState, Len(stockData)))

\* On a window of negative size zoomOut moves viewportEnd down without end:
\* the model follows it MaxUnderrun indices below 0.
ZoomOut ==
    /\ ButtonsShown
    /\ chartState.viewportEnd + MaxUnderrun > 0
    /\ View(zoomOut(chartState, Len(stockData)))

ResetView == ButtonsShown /\ View(resetView(chartState, Len(stockData)))

Next ==
    \/ Mount
    \/ \E s \in Symbols, d \in DaysChoices : ChangeProps(s, d)
    \/ Unmount
    \/ Refresh
    \/ \E k \in DOMAIN runs : \E resp \in YahooResponses(runs[k].days) :
            YahooSettles(k, resp)
    \/ \E k \in DOMAIN runs : \E resp \in AlphaResponses(runs[k].days) :
            AlphaSettles(k, resp)
    \/ \E k \in DOMAIN runs, r \in RandomDraws : TimerFires(k, r)
    \/ \E out \in BOOLEAN : Wheel(out)
    \/ \E x \in PointerXs : MouseDown(x)
    \/ \E x \in PointerXs : MouseMove(x)
    \/ MouseUp
    \/ ZoomIn
    \/ ZoomOut
    \/ ResetView

Spec == Init /\ [][Next]_vars

(***************************************************************************)
(* One component at a time, and a component whose props never change and  *)
(* that is never refreshed or unmounted: its effect runs once.            *)
(***************************************************************************)
NextReal ==
    \/ Mount
    \/ \E s \in Symbols, d \in DaysChoices : ChangeProps(s, d)
    \/ Unmount
    \/ \E k \in DOMAIN runs : \E resp \in YahooResponses(runs[k].days) :
            YahooSettles(k, resp)
    \/ \E out \in BOOLEAN : Wheel(out)
    \/ \E x \in PointerXs : MouseDown(x)
    \/ \E x \in PointerXs : MouseMove(x)
    \/ MouseUp
    \/ ZoomIn
    \/ ZoomOut
    \/ ResetView

InitReal == Init /\ comp = "Real"

SpecReal == InitReal /\ [][NextReal]_vars

NextYahoo ==
    \/ Mount
    \/ \E s \in Symbols, d \in DaysChoices : ChangeProps(s, d)
    \/ Unmount
    \/ Refresh
    \/ \E k \in DOMAIN runs : \E resp \in YahooResponses(runs[k].days) :
            YahooSettles(k, resp)
    \/ \E k \in DOMAIN runs : \E resp \in AlphaResponses(runs[k].days) :
            AlphaSettles(k, resp)
    \/ \E out \in BOOLEAN : Wheel(out)
    \/ \E x \in PointerXs : MouseDown(x)
    \/ \E x \in PointerXs : MouseMove(x)
    \/ MouseUp

InitYahoo == Init /\ comp = "Yahoo"

SpecYahoo == InitYahoo /\ [][NextYahoo]_vars

NextView ==
    \/ Mount
    \/ \E k \in DOMAIN runs : \E resp \in YahooResponses(runs[k].days) :
            YahooSettles(k, resp)
    \/ \E k \in DOMAIN runs : \E resp \in AlphaResponses(runs[k].days) :
            AlphaSettles(k, resp)
    \/ \E k \in DOMAIN runs, r \in RandomDraws : TimerFires(k, r)
    \/ \E out \in BOOLEAN : Wheel(out)
    \/ \E x \in PointerXs : MouseDown(x)
    \/ \E x \in PointerXs : MouseMove(x)
    \/ MouseUp
    \/ ZoomIn
    \/ ZoomOut
    \/ ResetView

InitView == Constructed(DaysChoices \cup {LongDays})

SpecView == InitView /\ [][NextView]_vars

\* The loads alone: a component nobody zooms or pans.
NextLoad ==
    \/ Mount
    \/ \E s \in Symbols, d \in DaysChoices : ChangeProps(s, d)
    \/ Unmount
    \/ Refresh
    \/ \E k \in DOMAIN runs : \E resp \in YahooResponses(runs[k].days) :
            YahooSettles(k, resp)
    \/ \E k \in DOMAIN runs : \E resp \in AlphaResponses(runs[k].days) :
            AlphaSettles(k, resp)
    \/ \E k \in DOMAIN runs, r \in RandomDraws : TimerFires(k, r)

SpecLoad == Init /\ [][NextLoad]_vars

\* The loads of a chart of LiveDays days whose requests and timers all settle
\* in the end, each request answered by a failure or by a full series.
YahooAnswers(n) ==
    {[status |-> "reject", result |-> Missing], YahooOk(YahooResult(n, {}))}

AlphaAnswers(n) ==
    {[status |-> "reject", errorMessage |-> FALSE, timeSeries |-> Missing],
     [status |-> "ok", errorMessage |-> FALSE, timeSeries |-> Num(AlphaSeries(n + 2))]}

RunSettles(k) ==
    /\ k \in DOMAIN runs
    /\ \/ \E resp \in YahooAnswers(runs[k].days) : YahooSettles(k, resp)
       \/ \E resp \in AlphaAnswers(runs[k].days) : AlphaSettles(k, resp)
       \/ TimerFires(k, 500)

\* While a run is pending one of the pending runs settles in the end; as
\* no more than MaxRuns runs start, each of them does.
SomeRunSettles == \E k \in 1..MaxRuns : RunSettles(k)

InitLive == ConstructedAs(Components, {"TMDX"}, {LiveDays})

NextLive ==
    \/ Mount
    \/ \E s \in Symbols : ChangeProps(s, LiveDays)
    \/ Unmount
    \/ Refresh
    \/ SomeRunSettles

SpecLive == InitLive /\ [][NextLive]_vars /\ WF_vars(SomeRunSettles)

\* The loads alone, the live sources sending the odd payloads as well.
NextPayload ==
    \/ Mount
    \/ \E s \in Symbols, d \in DaysChoices : ChangeProps(s, d)
    \/ \E k \in DOMAIN runs :
         \E resp \in YahooResponses(runs[k].days) \cup OddYahooResponses(runs[k].days) :
            YahooSettles(k, resp)
    \/ \E k \in DOMAIN runs :
         \E resp \in AlphaResponses(runs[k].days) \cup OddAlphaResponses(runs[k].days) :
            AlphaSettles(k, resp)
    \/ \E k \in DOMAIN runs, r \in RandomDraws : TimerFires(k, r)

SpecPayload == Init /\ [][NextPayload]_vars

(***************************************************************************)
(* The components that generate their series, RealStockChart without      *)
(* useRealData, InteractiveStockChart and StockChart, with every profile  *)
(* of the generators and the draws at their corners.                      *)
(***************************************************************************)
MockComponents == {"Real", "Interactive", "Stock"}
MockSymbols == {"TMDX", "AAPL", "TSLA", "XYZ"}

InitMock ==
    /\ ConstructedAs(MockComponents, MockSymbols, DaysChoices)
    /\ useRealData = FALSE

MountDrawn ==
    /\ mounted /\ runs = <<>>
    /\ UNCHANGED <<comp, mounted, props>>
    /\ StartLoadFrom(CornerDraws)

NextMock ==
    \/ MountDrawn
    \/ \E k \in DOMAIN runs, w \in CornerDraws : TimerFiresWith(k, w)

SpecMock == InitMock /\ [][NextMock]_vars

(***************************************************************************)
(* A chart of ScenarioDays days on a canvas ScenarioWidth pixels wide,    *)
(* loaded once, the pointer at multiples of ScenarioStep pixels.          *)
(***************************************************************************)
InitScenario == ConstructedAs(Components, {"TMDX"}, {ScenarioDays})

NextScenario ==
    \/ Mount
    \/ \E k \in DOMAIN runs :
         \E resp \in {[status |-> "reject", result |-> Missing],
                      YahooOk(YahooResult(runs[k].days, {}))} :
            YahooSettles(k, resp)
    \/ \E k \in DOMAIN runs :
         \E resp \in {[status |-> "reject", errorMessage |-> FALSE,
                       timeSeries |-> Missing],
                      [status |-> "ok", errorMessage |-> FALSE,
                       timeSeries |-> Num(AlphaSeries(runs[k].days + 2))]} :
            AlphaSettles(k, resp)
    \/ \E k \in DOMAIN runs : TimerFires(k, 500)
    \/ \E out \in BOOLEAN : Wheel(out)
    \/ \E x \in ScenarioXs : MouseDown(x)
    \/ \E x \in ScenarioXs : MouseMoveOn(x, ScenarioWidth)
    \/ MouseUp

SpecScenario == InitScenario /\ [][NextScenario]_vars

(***************************************************************************)
(* Steps of a run, for the properties below.                               *)
(***************************************************************************)
\* Run k ends in this step: its last continuation runs.
Finishes(k) ==
    \/ k \in DOMAIN runs /\ runs[k].pc # "done" /\ runs'[k].pc = "done"
    \/ k \notin DOMAIN runs /\ k \in DOMAIN runs' /\ runs'[k].pc = "done"

\* Run k applies a series in this step.
Applies(k) == Finishes(k) /\ runs'[k].outcome = "applied"

(***************************************************************************)
(* C1.  Once a series of at least MinVisible points is loaded with the    *)
(* viewport at the full range, every sequence of wheel, zoom button,      *)
(* pointer and reset events leaves 0 <= viewportStart < viewportEnd <=    *)
(* length and MinVisible <= viewportEnd - viewportStart <= length.        *)
(***************************************************************************)
ViewportInv(cs, length) ==
    /\ 0 <= cs.viewportStart
    /\ cs.viewportStart < cs.viewportEnd
    /\ cs.viewportEnd <= length
    /\ MinVisible <= cs.viewportEnd - cs.viewportStart
    /\ cs.viewportEnd - cs.viewportStart <= length

C1_ViewportInvariant ==
    Len(stockData) >= MinVisible => ViewportInv(chartState, Len(stockData))

\* A window of the least size, strictly inside the series, reached in a drag.
C1_Witness ==
    /\ Len(stockData) > MinVisible
    /\ chartState.viewportEnd - chartState.viewportStart = MinVisible
    /\ chartState.viewportStart > 0
    /\ chartState.viewportEnd < Len(stockData)
    /\ chartState.isDragging

(***************************************************************************)
(* C2.  Whenever a run replaces the series (first load, a load after new  *)
(* props, a refresh), the viewport becomes the full range of the new      *)
(* series: viewportStart = 0 and viewportEnd = its length.                *)
(***************************************************************************)
C2_ReplacementResetsViewport ==
    [][\A k \in DOMAIN runs' :
          Applies(k) => /\ chartState'.viewportStart = 0
                        /\ chartState'.viewportEnd = Len(stockData')]_vars

(***************************************************************************)
(* C3.  When a run ends after a later run of the same component has       *)
(* started, it leaves the series, the source tag and the error as they    *)
(* are: only the latest run's result is applied.                          *)
(***************************************************************************)
C3_LatestRequestWins ==
    [][\A k \in DOMAIN runs :
          (Finishes(k) /\ k < Len(runs))
              => UNCHANGED <<stockData, dataSource, error>>]_vars

(***************************************************************************)
(* C4.  After the component is unmounted no request or timer that was in  *)
(* flight sets its series, viewport, loading flag or error.               *)
(***************************************************************************)
C4_NothingAppliedAfterUnmount ==
    [][~mounted => UNCHANGED <<stockData, chartState, loading, error>>]_vars

(***************************************************************************)
(* C5.  Whatever the live requests settle to, a load run that has ended   *)
(* has applied a series, or - only in the component with no generator,    *)
(* YahooFinanceChart, and only when its primary source has failed and its *)
(* secondary has failed or given nothing - has ended on the error state.  *)
(***************************************************************************)
C5_LoadEndsAppliedOrFailed ==
    \A k \in DOMAIN runs :
        (runs[k].kind = "load" /\ runs[k].pc = "done")
            => \/ runs[k].outcome = "applied"
               \/ /\ runs[k].outcome = "error"
                  /\ comp = "Yahoo"
                  /\ runs[k].yahoo = "failed"
                  /\ runs[k].alpha \in {"failed", "empty"}

\* A load of RealStockChart whose live request failed has ended on a
\* generated series.
C5_Witness ==
    \E k \in DOMAIN runs :
        /\ comp = "Real"
        /\ runs[k].kind = "load" /\ runs[k].pc = "done"
        /\ runs[k].yahoo = "failed"
        /\ runs[k].outcome = "applied"
        /\ lastEvent.run = k /\ ~lastEvent.ok
        /\ stockData # <<>>

(***************************************************************************)
(* C6.  The secondary source is requested only once the primary has       *)
(* failed, and when it then succeeds the series applied is exactly the    *)
(* series fetchAlphaVantageData returns, with no error set by the run.    *)
(***************************************************************************)
C6_SecondaryAfterPrimary ==
    [][\A k \in DOMAIN runs :
          /\ (runs[k].alpha = "notasked" /\ runs'[k].alpha # "notasked")
                => runs[k].pc = "yahoo" /\ runs'[k].yahoo = "failed"
          /\ (runs[k].pc = "alpha" /\ runs'[k].alpha = "ok")
                => /\ runs[k].yahoo = "failed"
                   /\ runs'[k].outcome = "applied"
                   /\ \E resp \in AlphaResponses(runs[k].days) :
                         /\ fetchAlphaVantageData(resp, runs[k].days).ok
                         /\ stockData' = fetchAlphaVantageData(resp, runs[k].days).data
                   /\ Len(stockData') > 0
                   /\ error' = error]_vars

\* The secondary's series is on display after the primary failed.
C6_Witness ==
    /\ comp = "Yahoo"
    /\ lastEvent.source = "alpha" /\ lastEvent.ok
    /\ runs[lastEvent.run].yahoo = "failed"
    /\ runs[lastEvent.run].alpha = "ok"
    /\ runs[lastEvent.run].outcome = "applied"
    /\ stockData = lastEvent.data
    /\ Len(stockData) = runs[lastEvent.run].days
    /\ error = NoError

(***************************************************************************)
(* C7.  In RealStockChart with live data requested, when the live request *)
(* fails the run ends with dataSource = "mock" and a series of exactly    *)
(* days + 1 points.                                                        *)
(***************************************************************************)
C7_FallbackToMock ==
    [][\A k \in DOMAIN runs :
          (comp = "Real" /\ runs[k].pc = "yahoo" /\ runs'[k].yahoo = "failed")
              => /\ runs'[k].pc = "done"
                 /\ runs'[k].outcome = "applied"
                 /\ dataSource' = "mock"
                 /\ Len(stockData') = runs[k].days + 1]_vars

\* The generated series is on display after a failed live request.
C7_Witness ==
    /\ comp = "Real"
    /\ lastEvent.source = "yahoo" /\ ~lastEvent.ok
    /\ runs[lastEvent.run].yahoo = "failed"
    /\ runs[lastEvent.run].pc = "done"
    /\ dataSource = "mock"
    /\ Len(stockData) = runs[lastEvent.run].days + 1

(***************************************************************************)
(* C8.  In YahooFinanceChart, which has no generator, when the secondary  *)
(* source fails after the primary the run ends on an error message and    *)
(* leaves the series and the viewport as they were.                       *)
(***************************************************************************)
C8_AllFailedNoSeries ==
    [][\A k \in DOMAIN runs :
          (runs[k].pc = "alpha" /\ runs'[k].alpha \in {"failed", "empty"})
              => /\ runs[k].yahoo = "failed"
                 /\ runs'[k].pc = "done"
                 /\ runs'[k].outcome = "error"
                 /\ error' # NoError
                 /\ stockData' = stockData
                 /\ chartState' = chartState]_vars

\* Both sources have failed in a load that followed a successful one: the
\* error is set and the earlier series is still the state.
C8_Witness ==
    /\ comp = "Yahoo"
    /\ lastEvent.source = "alpha" /\ ~lastEvent.ok
    /\ runs[lastEvent.run].yahoo = "failed"
    /\ runs[lastEvent.run].alpha = "failed"
    /\ error = "AllSourcesFailed"
    /\ ~loading
    /\ stockData # <<>>

(***************************************************************************)
(* C9.  A refresh whose primary request fails goes on to the secondary    *)
(* source, as a load does, before it reports any failure.                 *)
(***************************************************************************)
C9_RefreshRunsFullChain ==
    [][\A k \in DOMAIN runs :
          (runs[k].kind = "refresh" /\ runs[k].pc = "yahoo"
                /\ runs'[k].yahoo = "failed")
              => runs'[k].pc = "alpha" /\ error' = error]_vars

(***************************************************************************)
(* C10.  A live source whose payload normalizes to no point at all is     *)
(* not applied as a successful result: the run that received it does not  *)
(* end with that empty series applied.                                    *)
(***************************************************************************)
C10_EmptySeriesNeverApplied ==
    (lastEvent.source \in {"yahoo", "alpha"} /\ lastEvent.ok
            /\ lastEvent.data = <<>>)
        => runs[lastEvent.run].outcome # "applied"

(***************************************************************************)
(* C11.  Every point of a series a live source returns has open > 0,      *)
(* close > 0, high >= max(open, close), low <= min(open, close),          *)
(* high >= low, volume >= 0 and no field that is not a number: a raw      *)
(* point that breaks one of these is dropped, never kept with a coerced   *)
(* value.                                                                  *)
(***************************************************************************)
ValidPoint(p) ==
    /\ \A f \in {"open", "high", "low", "close", "volume"} : p[f] # NaN
    /\ p.open > 0 /\ p.close > 0
    /\ p.high >= Max(p.open, p.close)
    /\ p.low <= Min(p.open, p.close)
    /\ p.high >= p.low
    /\ p.volume >= 0

C11_LivePointsValid ==
    (lastEvent.source \in {"yahoo", "alpha"} /\ lastEvent.ok)
        => \A i \in DOMAIN lastEvent.data : ValidPoint(lastEvent.data[i])

(***************************************************************************)
(* C12.  Every series a load or refresh applies has strictly increasing   *)
(* dates: sorted, and no date twice.                                       *)
(***************************************************************************)
StrictlyIncreasingDates(data) ==
    \A i \in 1..(Len(data) - 1) : data[i].date < data[i + 1].date

C12_AppliedDatesIncrease ==
    [][\A k \in DOMAIN runs' : Applies(k) => StrictlyIncreasingDates(stockData')]_vars

(***************************************************************************)
(* C13.  While a request (or the load timer) of some run is pending, the  *)
(* loading flag is true, also when two loads overlap and the earlier one  *)
(* ends first.                                                             *)
(***************************************************************************)
C13_LoadingWhilePending ==
    (\E k \in DOMAIN runs : runs[k].pc # "done") => loading

(***************************************************************************)
(* C14.  The failure of one live source alone never ends a load or a      *)
(* refresh in the error state: a run ends on an error only once its       *)
(* primary source has failed and its secondary has failed or given        *)
(* nothing, in the component that has no generator.                       *)
(***************************************************************************)
C14_NoSingleSourceError ==
    \A k \in DOMAIN runs :
        runs[k].outcome = "error"
            => /\ comp = "Yahoo"
               /\ runs[k].yahoo = "failed"
               /\ runs[k].alpha \in {"failed", "empty"}

(***************************************************************************)
(* C15.  In a drag, a pointer move to the right whose index shift exceeds *)
(* viewportStart leaves the window at viewportStart = 0 with its size     *)
(* unchanged, and a move to the left whose shift exceeds length -         *)
(* viewportEnd leaves it at viewportEnd = length with its size unchanged. *)
(***************************************************************************)
C15_PanClampsAtEdges ==
    (CanvasShown /\ chartState.isDragging /\ chartState.dragStartX # Missing)
        => \A x \in PointerXs :
              LET length == Len(stockData)
                  size == chartState.viewportEnd - chartState.viewportStart
                  offset == DragOffset(chartState, x, CanvasWidth)
                  after == handleMouseMove(chartState, length, x, CanvasWidth)
              IN  /\ offset > chartState.viewportStart
                        => after.viewportStart = 0 /\ after.viewportEnd = size
                  /\ 0 - offset > length - chartState.viewportEnd
                        => /\ after.viewportEnd = length
                           /\ after.viewportStart = length - size

(***************************************************************************)
(* C16.  Every point a generator produces has, after the rounding to two  *)
(* decimals, high >= max(open, close), low <= min(open, close), open > 0, *)
(* close > 0 and volume >= 0, for every profile and every draw.           *)
(***************************************************************************)
C16_GeneratedPointsValid ==
    lastEvent.source = "mock"
        => /\ stockData = lastEvent.data
           /\ Len(stockData) = days + 1
           /\ \A i \in DOMAIN stockData : ValidPoint(stockData[i])

\* A generated series of the default profile with a point whose high is its
\* open or close and whose low is the other: the draws of high and low at 0.
C16_Witness ==
    /\ lastEvent.source = "mock"
    /\ symbol = "XYZ"
    /\ \E i \in DOMAIN stockData :
          /\ stockData[i].high = Max(stockData[i].open, stockData[i].close)
          /\ stockData[i].low = Min(stockData[i].open, stockData[i].close)
          /\ stockData[i].open # stockData[i].close

(***************************************************************************)
(* C17.  On a canvas 800 pixels wide with a window of 72 points, a        *)
(* pointer move of -80 pixels in a drag shifts the window by Shift        *)
(* indices toward the newer data (viewportStart and viewportEnd both grow *)
(* by Shift) when that stays within the series.  The sensitivity is 0.09  *)
(* and Math.floor(-80 * 0.09) = Math.floor(-7.2) = -8: the shift is 8.    *)
(***************************************************************************)
DragMovesWindowBy(shift) ==
    (CanvasShown /\ chartState.isDragging /\ chartState.dragStartX # Missing
            /\ chartState.viewportEnd - chartState.viewportStart = 72)
        => \A x \in ScenarioXs :
              (/\ ScenarioWidth = 800
               /\ x - chartState.dragStartX[1] = 0 - 80
               /\ chartState.viewportEnd + shift <= Len(stockData))
                  => handleMouseMove(chartState, Len(stockData), x, ScenarioWidth)
                        = [chartState EXCEPT
                              !.viewportStart = chartState.viewportStart + shift,
                              !.viewportEnd = chartState.viewportEnd + shift,
                              !.dragStartX = Num(x)]

C17_DragShiftsByEight == DragMovesWindowBy(8)

\* As the scenario states it: a shift of 7.
C17_DragShiftsBySeven == DragMovesWindowBy(7)

\* The window [9, 81] of a series of 90 points, pressed at 80 and moved to 0:
\* it is now [17, 89].
C17_Witness ==
    /\ CanvasShown /\ chartState.isDragging
    /\ Len(stockData) = 90
    /\ chartState.viewportStart = 17 /\ chartState.viewportEnd = 89
    /\ chartState.dragStartX = Num(0)

(***************************************************************************)
(* C18.  When the window is the whole series (viewportStart = 0,          *)
(* viewportEnd = length, length >= MinVisible) a wheel event with         *)
(* deltaY > 0 leaves the chart state as it is.                            *)
(***************************************************************************)
C18_WheelOutAtFullRange ==
    (/\ CanvasShown /\ Len(stockData) >= MinVisible
     /\ chartState.viewportStart = 0
     /\ chartState.viewportEnd = Len(stockData))
        => handleWheel(comp, chartState, Len(stockData), TRUE) = chartState

\* The whole series of 90 points in the window, come back to after a zoom
\* that was followed by a press on the canvas.
C18_Witness ==
    /\ CanvasShown /\ Len(stockData) = 90
    /\ chartState.viewportStart = 0 /\ chartState.viewportEnd = 90
    /\ chartState.isDragging

(***************************************************************************)
(* C19.  A click on the reset button sets the window to [0, length of the *)
(* current series], whatever the window was, and leaves the series, the   *)
(* dragging flag and the drag anchor as they were.                        *)
(***************************************************************************)
C19_ResetKeepsSeriesAndDrag ==
    [][ResetView =>
          /\ chartState'.viewportStart = 0
          /\ chartState'.viewportEnd = Len(stockData)
          /\ stockData' = stockData
          /\ chartState'.isDragging = chartState.isDragging
          /\ chartState'.dragStartX = chartState.dragStartX]_vars

\* The whole of a 30-point series in the window in the middle of a drag whose
\* anchor has moved: what a reset leaves of a zoomed window dragged along.
C19_Witness ==
    /\ ButtonsShown /\ Len(stockData) = LongDays + 1
    /\ chartState.viewportStart = 0 /\ chartState.viewportEnd = Len(stockData)
    /\ chartState.isDragging /\ chartState.dragStartX = Num(PointerStep)

(***************************************************************************)
(* C20.  When drawChart draws a slice whose lowest low equals its highest *)
(* high, the price scale and the y coordinates of every candle are finite *)
(* numbers; when it draws a slice of exactly one point, the x coordinate  *)
(* of the candle is a finite number.                                      *)
(***************************************************************************)
DegenerateRange(visibleData) ==
    /\ MinPrice(visibleData) # NaN
    /\ MinPrice(visibleData) = MaxPrice(visibleData)

C20_DrawChartStaysFinite ==
    (CanvasShown /\ Drawing.draws) =>
        /\ DegenerateRange(Drawing.visibleData) =>
              /\ IsFinite(Drawing.priceScale)
              /\ \A k \in DOMAIN Drawing.candles :
                    /\ IsFinite(Drawing.candles[k].openY)
                    /\ IsFinite(Drawing.candles[k].closeY)
                    /\ IsFinite(Drawing.candles[k].highY)
                    /\ IsFinite(Drawing.candles[k].lowY)
        /\ Len(Drawing.visibleData) = 1 => IsFinite(Drawing.candles[1].x)

(***************************************************************************)
(* C21.  The window size a wheel event or a zoom button computes is       *)
(* clamp(round(size * factor), 10, length), size the current window size  *)
(* and factor 1.1 (wheel, deltaY > 0), 0.9 (wheel, deltaY <= 0), 0.8      *)
(* (zoom-in button) or 1.2 (zoom-out button), for every current size.     *)
(***************************************************************************)
\* round(size * tenths / 10), halves rounded up, clamped to [lo, hi].
RoundedClamp(size, tenths, lo, hi) ==
    Min(Max((size * tenths + 5) \div 10, lo), hi)

C21_NewSizeRoundedClamp ==
    (/\ CanvasShown /\ Len(stockData) >= MinVisible
     /\ ViewportInv(chartState, Len(stockData))) =>
        LET size == chartState.viewportEnd - chartState.viewportStart
            length == Len(stockData)
        IN  /\ WheelVisible(comp, chartState, length, TRUE)
                  = RoundedClamp(size, 11, MinVisible, length)
            /\ WheelVisible(comp, chartState, length, FALSE)
                  = RoundedClamp(size, 9, MinVisible, length)
            /\ ButtonsShown =>
                  /\ ZoomInVisible(chartState)
                        = RoundedClamp(size, 8, MinVisible, length)
                  /\ ZoomOutVisible(chartState, length)
                        = RoundedClamp(size, 12, MinVisible, length)

(***************************************************************************)
(* C22.  A wheel event or a zoom button that computes the size newSize    *)
(* commits newStart = clamp(floor((start + end) / 2 - newSize / 2), 0,    *)
(* length - newSize) and newEnd = newStart + newSize: the committed       *)
(* window has newSize points, also when the old one touches the right end *)
(* of the series.                                                         *)
(***************************************************************************)
RecenteredWithin(cs, length, newSize) ==
    LET newStart == Min(Max((cs.viewportStart + cs.viewportEnd - newSize) \div 2, 0),
                        length - newSize)
    IN  [cs EXCEPT !.viewportStart = newStart, !.viewportEnd = newStart + newSize]

C22_CommittedWindowHasNewSize ==
    (/\ CanvasShown /\ Len(stockData) >= MinVisible
     /\ ViewportInv(chartState, Len(stockData))) =>
        LET size == chartState.viewportEnd - chartState.viewportStart
            length == Len(stockData)
        IN  /\ \A out \in BOOLEAN :
                  WheelVisible(comp, chartState, length, out) # size =>
                      handleWheel(comp, chartState, length, out)
                          = RecenteredWithin(chartState, length,
                                WheelVisible(comp, chartState, length, out))
            /\ ButtonsShown =>
                  /\ zoomIn(chartState, length)
                        = RecenteredWithin(chartState, length, ZoomInVisible(chartState))
                  /\ zoomOut(chartState, length)
                        = RecenteredWithin(chartState, length,
                                           ZoomOutVisible(chartState, length))

(***************************************************************************)
(* C23.  A pointer move in a drag never changes the window size: either   *)
(* viewportStart and viewportEnd both move by the same number of indices  *)
(* and the new window lies inside [0, length], or both stay as they were. *)
(***************************************************************************)
C23_DragKeepsWindowSize ==
    (CanvasShown /\ chartState.isDragging /\ chartState.dragStartX # Missing) =>
        \A x \in PointerXs :
            LET moved == handleMouseMove(chartState, Len(stockData), x, CanvasWidth)
            IN  \/ /\ moved.viewportStart = chartState.viewportStart
                   /\ moved.viewportEnd = chartState.viewportEnd
                \/ /\ moved.viewportStart - chartState.viewportStart
                          = moved.viewportEnd - chartState.viewportEnd
                   /\ 0 <= moved.viewportStart
                   /\ moved.viewportEnd <= Len(stockData)

\* A drag in progress on a window of 24 of 30 points that it has moved to the
\* right end of the series: a move further that way is cut at the end.
C23_Witness ==
    /\ CanvasShown /\ chartState.isDragging
    /\ Len(stockData) = LongDays + 1
    /\ chartState.viewportEnd = Len(stockData)
    /\ chartState.viewportEnd - chartState.viewportStart = 24
    /\ chartState.dragStartX = Num(0)

(***************************************************************************)
(* C24.  Every pointer move in a drag sets the drag anchor to the x of    *)
(* the pointer, whether the move shifted the window, shifted it by 0      *)
(* indices or was refused at an end of the series.                        *)
(***************************************************************************)
C24_MoveAlwaysSetsAnchor ==
    (CanvasShown /\ chartState.isDragging /\ chartState.dragStartX # Missing) =>
        \A x \in PointerXs :
            handleMouseMove(chartState, Len(stockData), x, CanvasWidth).dragStartX
                = Num(x)

(***************************************************************************)
(* C25.  In every reachable state isDragging is true if and only if       *)
(* dragStartX is defined.  A pointer down sets both, a pointer up or      *)
(* leave clears both, and every step that is not a pointer down, up or    *)
(* move (wheel, zoom buttons, reset, the steps of a load) changes         *)
(* neither.                                                               *)
(***************************************************************************)
C25_DraggingIffAnchor ==
    /\ [](chartState.isDragging <=> chartState.dragStartX # Missing)
    /\ [][(\E x \in PointerXs : MouseDown(x)) =>
              chartState'.isDragging /\ chartState'.dragStartX # Missing]_vars
    /\ [][MouseUp =>
              ~chartState'.isDragging /\ chartState'.dragStartX = Missing]_vars
    /\ [][~(\/ \E x \in PointerXs : MouseDown(x) \/ MouseMove(x)
             \/ MouseUp) =>
              /\ chartState'.isDragging = chartState.isDragging
              /\ chartState'.dragStartX = chartState.dragStartX]_vars

\* A drag in progress on a window that the wheel has zoomed since the press.
C25_Witness ==
    /\ CanvasShown /\ chartState.isDragging
    /\ chartState.dragStartX = Num(2 * PointerStep)
    /\ Len(stockData) = LongDays + 1
    /\ chartState.viewportEnd - chartState.viewportStart = 27

(***************************************************************************)
(* C26.  The sensitivity of pointer moves is fixed from the pointer down  *)
(* to the pointer up of a drag: a wheel event in the middle of a drag     *)
(* leaves the sensitivity, and so the index shift of every later pointer  *)
(* position, as it was before the event.                                  *)
(***************************************************************************)
C26_SensitivityFixedInDrag ==
    [][(/\ chartState.isDragging /\ chartState.dragStartX # Missing
        /\ \E out \in BOOLEAN : Wheel(out)) =>
          /\ Sensitivity(chartState', CanvasWidth) = Sensitivity(chartState, CanvasWidth)
          /\ \A x \in PointerXs :
                DragOffset(chartState', x, CanvasWidth)
                    = DragOffset(chartState, x, CanvasWidth)]_vars

(***************************************************************************)
(* C27.  In RealStockChart, once a load has completed, dataSource is      *)
(* 'api' exactly when the series held is the one the live request         *)
(* returned, and 'mock' exactly when generateMockData produced it, also   *)
(* when loads overlap.                                                    *)
(***************************************************************************)
SeriesFromLive ==
    lastEvent.source = "yahoo" /\ lastEvent.ok /\ stockData = lastEvent.data

SeriesFromGenerator ==
    \E k \in DOMAIN runs, r \in RandomDraws :
        stockData = generateMockData("Real", runs[k].symbol, runs[k].days, r)

C27_SourceTagMatchesSeries ==
    (comp = "Real" /\ \E k \in DOMAIN runs : runs[k].pc = "done") =>
        /\ dataSource = "api" <=> SeriesFromLive
        /\ dataSource = "mock" <=> SeriesFromGenerator

\* Two overlapping loads, the older settled last: its request failed and its
\* generated series replaced the live series of the newer one.
C27_Witness ==
    /\ comp = "Real" /\ useRealData /\ Len(runs) = 2
    /\ \A k \in DOMAIN runs : runs[k].pc = "done"
    /\ runs[2].yahoo = "ok" /\ runs[1].yahoo = "failed"
    /\ lastEvent.run = 1
    /\ dataSource = "mock" /\ SeriesFromGenerator

(***************************************************************************)
(* C28.  In YahooFinanceChart a refresh that fails leaves the series, the *)
(* window (viewportStart, viewportEnd) and lastUpdate as they were: the   *)
(* step that starts it and the step in which its request fails change     *)
(* only error and loading.                                                *)
(***************************************************************************)
RefreshFails(k) ==
    /\ comp = "Yahoo" /\ runs[k].kind = "refresh" /\ runs[k].pc = "yahoo"
    /\ runs'[k].pc = "done" /\ runs'[k].yahoo = "failed"

C28_FailedRefreshKeepsSeries ==
    [][(Refresh \/ \E k \in DOMAIN runs : RefreshFails(k)) =>
          /\ stockData' = stockData
          /\ chartState' = chartState
          /\ lastUpdate' = lastUpdate
          /\ dataSource' = dataSource
          /\ (\E k \in DOMAIN runs : RefreshFails(k)) =>
                error' = "RefreshFailed" /\ ~loading']_vars

\* A refresh has failed on a chart that held a series: the series is still
\* there, under the error message.
C28_Witness ==
    /\ comp = "Yahoo" /\ Len(runs) = 2
    /\ runs[1].outcome = "applied"
    /\ runs[2].kind = "refresh" /\ runs[2].pc = "done" /\ runs[2].yahoo = "failed"
    /\ error = "RefreshFailed" /\ ~loading
    /\ stockData # <<>> /\ chartState.viewportEnd = Len(stockData)
    /\ lastUpdate = 1

(***************************************************************************)
(* C29.  If every request and every load timer settles in the end, every  *)
(* load or refresh that has started finishes in the end, and whenever     *)
(* loads have started and none is pending loading is false, whether they  *)
(* ended on a series of a live source, on a generated series or on an     *)
(* error.                                                                 *)
(***************************************************************************)
NoRunPending == runs # <<>> /\ \A k \in DOMAIN runs : runs[k].pc = "done"

\* A finished run stays finished: when no run is pending, every run started
\* so far has finished.
C29_EveryLoadFinishes ==
    /\ (runs # <<>>) ~> NoRunPending
    /\ [](NoRunPending => ~loading)

\* Two loads have finished, one on a series and one on an error.
C29_Witness ==
    /\ Len(runs) = MaxRuns
    /\ \A k \in DOMAIN runs : runs[k].pc = "done"
    /\ \E k \in DOMAIN runs : runs[k].outcome = "error"
    /\ \E k \in DOMAIN runs : runs[k].outcome = "applied"
    /\ ~loading

(***************************************************************************)
(* C30.  From a window with 0 <= viewportStart < viewportEnd <= length    *)
(* and at least MinVisible points, every press of the zoom-out button     *)
(* makes the window strictly larger until it is [0, length]; it is        *)
(* [0, length] after at most length presses, and a press on [0, length]   *)
(* leaves it as it is.                                                    *)
(***************************************************************************)
FullRange(cs, length) == cs.viewportStart = 0 /\ cs.viewportEnd = length

\* The chart state after n presses of the zoom-out button.
RECURSIVE ZoomOutTimes(_, _, _)
ZoomOutTimes(cs, length, n) ==
    IF n = 0 THEN cs ELSE ZoomOutTimes(zoomOut(cs, length), length, n - 1)

C30_ZoomOutReachesFullRange ==
    (/\ ButtonsShown /\ Len(stockData) >= MinVisible
     /\ ViewportInv(chartState, Len(stockData))) =>
        LET length == Len(stockData)
            pressed == zoomOut(chartState, length)
        IN  /\ ViewportInv(pressed, length)
            /\ ~FullRange(chartState, length) =>
                  pressed.viewportEnd - pressed.viewportStart
                      > chartState.viewportEnd - chartState.viewportStart
            /\ FullRange(chartState, length) => pressed = chartState
            /\ FullRange(ZoomOutTimes(chartState, length, length), length)

\* The window [1, 29] of a series of 30 points: one press of the zoom-out
\* button on [3, 27], two presses from the full range.
C30_Witness ==
    /\ ButtonsShown /\ Len(stockData) = LongDays + 1
    /\ chartState.viewportStart = 1 /\ chartState.viewportEnd = 29
    /\ ~chartState.isDragging

====
